---- MODULE Spec2Model ----
(***************************************************************************)
(* A model of generate_skyrim_items_json.py: the link extractor, the       *)
(* identifier extractor, the category scraper and the run orchestrator.    *)
(*                                                                         *)
(* Text is a sequence of one-character strings, so that prefix tests,      *)
(* case folding, stripping and the regular expressions of the source are   *)
(* computed character by character.                                        *)
(***************************************************************************)
EXTENDS Integers, Sequences, FiniteSets, TLC

VARIABLES
    pc,         \* the position of the process in main() and scrape_category()
    input,      \* the markup handed to an extractor (extractor specifications)
    output,     \* what the extractor returned
    web,        \* the site: request target -> response
    diskCache,  \* the cache directory: whether it can be created, and its files
    file,       \* the output file
    args,       \* the parsed command line
    run,        \* 1 in the first invocation of main(), 2 in the second
    out_data,   \* main(): the in-memory store
    ci,         \* main(): index in categories of the category being processed
    existing_names, \* main(): lowercased names stored under the key before the scrape
    links,      \* scrape_category(): the candidate links of the category page
    li,         \* scrape_category(): index in links of the next candidate
    items,      \* scrape_category(): the records produced so far
    count,      \* scrape_category(): their number, for the cap
    error,      \* the exception that ended the process, "" while there is none
    trace,      \* history: cache reads, item fetches and pauses of the current scrape
    loaded,     \* history: the store main() started from
    scraped,    \* history: (key, items) of each category scraped in this run
    startFile,  \* history: the output file as this run found it
    lastSave,   \* history: how the last attempt to write the output file ended
    sameSite,   \* history: the site has not changed since the first run
    firstStore  \* history: the in-memory store at the end of the first run

vars == <<pc, input, output, web, diskCache, file, args, run, out_data, ci,
          existing_names, links, li, items, count, error, trace, loaded, scraped,
          startFile, lastSave, sameSite, firstStore>>

\* the state of the environment and of a run, which the extractor specifications leave alone
runVars == <<web, diskCache, file, args, run, out_data, ci, existing_names, links, li,
             items, count, error, trace, loaded, scraped, startFile, lastSave, sameSite,
             firstStore>>

-----------------------------------------------------------------------------
(* Characters *)

Digits == {"0", "1", "2", "3", "4", "5", "6", "7", "8", "9"}

LowerLetters ==
    <<"a", "b", "c", "d", "e", "f", "g", "h", "i", "j", "k", "l", "m",
      "n", "o", "p", "q", "r", "s", "t", "u", "v", "w", "x", "y", "z">>

UpperLetters ==
    <<"A", "B", "C", "D", "E", "F", "G", "H", "I", "J", "K", "L", "M",
      "N", "O", "P", "Q", "R", "S", "T", "U", "V", "W", "X", "Y", "Z">>

Range(s) == {s[i] : i \in DOMAIN s}

\* [0-9A-Fa-f]
IsHex(c) == c \in Digits \cup {"a", "b", "c", "d", "e", "f", "A", "B", "C", "D", "E", "F"}

\* \w, whose complement makes the \b of the fourth pattern
IsWord(c) == c \in Digits \cup Range(LowerLetters) \cup Range(UpperLetters) \cup {"_"}

\* \s, and what str.strip() removes
IsSpace(c) == c \in {" ", "\n"}

\* [:\s]
IsSep(c) == c = ":" \/ IsSpace(c)

UpperChar(c) ==
    IF \E i \in 1..26 : LowerLetters[i] = c
    THEN UpperLetters[CHOOSE i \in 1..26 : LowerLetters[i] = c]
    ELSE c

LowerChar(c) ==
    IF \E i \in 1..26 : UpperLetters[i] = c
    THEN LowerLetters[CHOOSE i \in 1..26 : UpperLetters[i] = c]
    ELSE c

\* str.upper()
StrUpper(s) == [i \in 1..Len(s) |-> UpperChar(s[i])]

\* str.lower()
StrLower(s) == [i \in 1..Len(s) |-> LowerChar(s[i])]

\* s[i:] (1-based i)
From(s, i) == SubSeq(s, i, Len(s))

\* s.startswith(p), tested at position i
StartsAt(s, i, p) ==
    /\ i + Len(p) - 1 <= Len(s)
    /\ \A k \in 1..Len(p) : s[i + k - 1] = p[k]

\* p in s
Contains(s, p) == \E i \in 1..(Len(s) + 1) : StartsAt(s, i, p)

\* str.strip()
Strip(s) ==
    IF \A i \in 1..Len(s) : IsSpace(s[i]) THEN <<>>
    ELSE LET a == CHOOSE i \in 1..Len(s) :
                      ~IsSpace(s[i]) /\ \A k \in 1..(i - 1) : IsSpace(s[k])
             b == CHOOSE i \in 1..Len(s) :
                      ~IsSpace(s[i]) /\ \A k \in (i + 1)..Len(s) : IsSpace(s[k])
         IN SubSeq(s, a, b)

RECURSIVE Replace0X(_)
\* s.replace('0X', '')
Replace0X(s) ==
    IF s = <<>> THEN <<>>
    ELSE IF StartsAt(s, 1, <<"0", "X">>) THEN Replace0X(From(s, 3))
    ELSE <<s[1]>> \o Replace0X(From(s, 2))


RECURSIVE JoinSpace(_)
\* ' '.join(ss)
JoinSpace(ss) ==
    IF ss = <<>> THEN <<>>
    ELSE IF Len(ss) = 1 THEN ss[1]
    ELSE ss[1] \o <<" ">> \o JoinSpace(Tail(ss))

-----------------------------------------------------------------------------
(* Identifier Extractor: FORMID_PATTERNS and extract_name_and_formid *)

MinHex == 6
MaxHex == 8
FallbackChars == 800

NoMatch == [hit |-> FALSE, group |-> <<>>]

\* n characters of [0-9A-Fa-f] start at position i
HexAt(text, i, n) ==
    /\ i >= 1
    /\ i + n - 1 <= Len(text)
    /\ \A k \in i..(i + n - 1) : IsHex(text[k])

\* a \b lies before position i (i = Len(text) + 1: at the end)
BoundaryAt(text, i) ==
    LET before == i > 1 /\ IsWord(text[i - 1])
        after  == i <= Len(text) /\ IsWord(text[i])
    IN before # after

RECURSIVE SkipSeps(_, _)
\* [:\s]* from position i, greedy: the position after the run
SkipSeps(text, i) ==
    IF i <= Len(text) /\ IsSep(text[i]) THEN SkipSeps(text, i + 1) ELSE i

\* ([0-9A-Fa-f]{6,8}) at position i, greedy; 0 when it does not match
GreedyHex(text, i) ==
    LET ns == {n \in MinHex..MaxHex : HexAt(text, i, n)}
    IN IF ns = {} THEN 0 ELSE CHOOSE n \in ns : \A m \in ns : m <= n

\* ([0-9A-Fa-f]{6,8})\b at position i, greedy with backtracking; 0 when no match
GreedyHexBounded(text, i) ==
    LET ns == {n \in MinHex..MaxHex : HexAt(text, i, n) /\ BoundaryAt(text, i + n)}
    IN IF ns = {} THEN 0 ELSE CHOOSE n \in ns : \A m \in ns : m <= n

\* literal[:\s]*([0-9A-Fa-f]{6,8}) tried at position i: <<start, length>> of the
\* group, length 0 when the pattern does not match there
LabelledAt(literal, text, i) ==
    IF StartsAt(text, i, literal)
    THEN <<SkipSeps(text, i + Len(literal)), GreedyHex(text, SkipSeps(text, i + Len(literal)))>>
    ELSE <<i, 0>>

\* 0x([0-9A-Fa-f]{6,8}) tried at position i
ZeroXAt(text, i) ==
    IF StartsAt(text, i, <<"0", "x">>) THEN <<i + 2, GreedyHex(text, i + 2)>> ELSE <<i, 0>>

\* \b([0-9A-Fa-f]{6,8})\b tried at position i
BareAt(text, i) ==
    IF BoundaryAt(text, i) THEN <<i, GreedyHexBounded(text, i)>> ELSE <<i, 0>>

\* the group of the match at position i
GroupOf(text, at) == [hit |-> TRUE, group |-> SubSeq(text, at[1], at[1] + at[2] - 1)]

\* re.search: the match at the leftmost position where the pattern matches;
\* tries[i] is the pattern tried at position i
Leftmost(text, tries) ==
    IF \A i \in 1..Len(tries) : tries[i][2] = 0 THEN NoMatch
    ELSE GroupOf(text, tries[CHOOSE i \in 1..Len(tries) :
                                 tries[i][2] > 0 /\ \A k \in 1..(i - 1) : tries[k][2] = 0])

\* re.compile(r'FormID[:\s]*([0-9A-Fa-f]{6,8})').search(text)
SearchFormID(text) ==
    Leftmost(text, [i \in 1..Len(text) |-> LabelledAt(<<"F", "o", "r", "m", "I", "D">>, text, i)])

\* re.compile(r'ID[:\s]*([0-9A-Fa-f]{6,8})').search(text)
SearchID(text) ==
    Leftmost(text, [i \in 1..Len(text) |-> LabelledAt(<<"I", "D">>, text, i)])

\* re.compile(r'0x([0-9A-Fa-f]{6,8})').search(text)
Search0x(text) == Leftmost(text, [i \in 1..Len(text) |-> ZeroXAt(text, i)])

\* re.compile(r'\b([0-9A-Fa-f]{6,8})\b').search(text)
SearchBare(text) == Leftmost(text, [i \in 1..Len(text) |-> BareAt(text, i)])

\* re.search(r'([0-9A-Fa-f]{6,8})', text)
SearchHex(text) == Leftmost(text, [i \in 1..Len(text) |-> <<i, GreedyHex(text, i)>>])

\* FORMID_PATTERNS[k - 1].search(text)
FORMID_PATTERNS(k, text) ==
    CASE k = 1 -> SearchFormID(text)
      [] k = 2 -> SearchID(text)
      [] k = 3 -> Search0x(text)
      [] k = 4 -> SearchBare(text)

NumPatterns == 4

\* a normalization that forgets to fold the case
NormalizeGroupNoUpper(g) == Replace0X(g)

\* formid = g.upper().replace('0X', '')
NormalizeGroup(g) == Replace0X(StrUpper(g))

\* the body of "if m:": the first non-empty group, normalized; '' without a match
FormidOfMatch(m) == IF m.hit /\ m.group # <<>> THEN NormalizeGroup(m.group) ELSE <<>>

RECURSIVE PatternLoop(_, _)
\* "if formid: break", else the next pattern
PatternNext(text, k, formid) == IF formid # <<>> THEN formid ELSE PatternLoop(text, k + 1)

\* for pat in FORMID_PATTERNS: ... , from pattern k on; '' when none matched
PatternLoop(text, k) ==
    IF k > NumPatterns THEN <<>>
    ELSE PatternNext(text, k, FormidOfMatch(FORMID_PATTERNS(k, text)))

\* the th label test of the table scan
IsIdLabel(label) ==
    \/ Contains(label, <<"f", "o", "r", "m", "i", "d">>)
    \/ Contains(label, <<"f", "o", "r", "m", " ", "i", "d">>)
    \/ Contains(label, <<"i", "t", "e", "m", " ", "i", "d">>)
    \/ label = <<"i", "d">>

\* formid = m.group(1).upper() when the search matched, '' otherwise
UpperGroup(m) == IF m.hit THEN StrUpper(m.group) ELSE <<>>

\* the body of "for th in ...": the identifier the row gives, '' when none
RowFormid(row) ==
    IF IsIdLabel(StrLower(Strip(row.th))) /\ row.td.ok
    THEN UpperGroup(SearchHex(Strip(row.td.text)))
    ELSE <<>>

RECURSIVE TableLoop(_)
\* "break" on the first row that gave an identifier, else the next row
TableNext(rows, formid) == IF formid # <<>> THEN formid ELSE TableLoop(Tail(rows))

\* for th in soup.find_all(['th']): ... ; '' when no row gave an identifier
TableLoop(rows) == IF rows = <<>> THEN <<>> ELSE TableNext(rows, RowFormid(rows[1]))

RECURSIVE RowStrings(_)
RowStrings(rows) ==
    IF rows = <<>> THEN <<>>
    ELSE <<rows[1].th>> \o (IF rows[1].td.ok THEN <<rows[1].td.text>> ELSE <<>>)
         \o RowStrings(Tail(rows))

\* the strings of the document, in document order
PageStrings(page) ==
    (IF page.h1.ok THEN <<page.h1.text>> ELSE <<>>) \o <<page.body>> \o RowStrings(page.rows)

StripAll(ss) == [i \in 1..Len(ss) |-> Strip(ss[i])]

\* soup.get_text(' ', strip=True): the stripped non-empty strings, joined by a space
GetText(page) == JoinSpace(SelectSeq(StripAll(PageStrings(page)), LAMBDA t : t # <<>>))

\* text[:800]
First800(text) == SubSeq(text, 1, IF Len(text) < FallbackChars THEN Len(text) ELSE FallbackChars)

\* lines 116-126: the table rows are scanned when no pattern matched
TableStage(page, formid) == IF formid = <<>> THEN TableLoop(page.rows) ELSE formid

\* lines 128-131: the first 800 characters are searched when nothing else matched
FallbackStage(text, formid) ==
    IF formid = <<>> THEN UpperGroup(SearchHex(First800(text))) ELSE formid

\* the identifier of a page whose text is text
FormidOf(page, text) == FallbackStage(text, TableStage(page, PatternLoop(text, 1)))

\* extract_name_and_formid(item_html)
extract_name_and_formid(page) ==
    [name |-> IF page.h1.ok THEN Strip(page.h1.text) ELSE <<>>,
     form_id |-> FormidOf(page, GetText(page))]

-----------------------------------------------------------------------------
(* URLs.  An absolute URL is a text whose first element is the scheme and   *)
(* host as one token; the path, query and fragment follow character by      *)
(* character.                                                               *)

Origin == "https://en.uesp.net"

\* the position of the first c in s, Len(s) + 1 when there is none
IndexOf(s, c) ==
    IF \E i \in 1..Len(s) : s[i] = c
    THEN CHOOSE i \in 1..Len(s) : s[i] = c /\ \A k \in 1..(i - 1) : s[k] # c
    ELSE Len(s) + 1

RECURSIVE SplitOn(_, _)
\* s.split(c)
SplitOn(s, c) ==
    LET i == IndexOf(s, c)
    IN IF i > Len(s) THEN <<s>>
       ELSE <<SubSeq(s, 1, i - 1)>> \o SplitOn(From(s, i + 1), c)

RECURSIVE JoinSlash(_)
\* '/'.join(segments)
JoinSlash(segs) ==
    IF segs = <<>> THEN <<>>
    ELSE IF Len(segs) = 1 THEN segs[1]
    ELSE segs[1] \o <<"/">> \o JoinSlash(Tail(segs))

RECURSIVE ResolveSegments(_, _)
\* urljoin's removal of the '.' and '..' segments of a path
ResolveSegments(segs, acc) ==
    IF segs = <<>> THEN acc
    ELSE IF segs[1] = <<".", ".">>
         THEN ResolveSegments(Tail(segs), IF acc = <<>> THEN acc ELSE SubSeq(acc, 1, Len(acc) - 1))
    ELSE IF segs[1] = <<".">> THEN ResolveSegments(Tail(segs), acc)
    ELSE ResolveSegments(Tail(segs), Append(acc, segs[1]))

\* the path, query and fragment of a reference or of what follows the host of a URL
UrlSplit(ref) ==
    LET h == IndexOf(ref, "#")
        noFrag == SubSeq(ref, 1, h - 1)
        q == IndexOf(noFrag, "?")
    IN [path |-> SubSeq(noFrag, 1, q - 1),
        query |-> From(noFrag, q + 1),
        fragment |-> From(ref, h + 1)]

\* urljoin(base_url, href), for an href that starts with '/'
urljoin(base_url, href) ==
    LET parts == UrlSplit(href)
        segs == SplitOn(parts.path, "/")
        last == segs[Len(segs)]
        resolved == ResolveSegments(segs, <<>>)
                        \o (IF last \in {<<".">>, <<".", ".">>} THEN <<(<<>>)>> ELSE <<>>)
        joined == JoinSlash(resolved)
    IN <<base_url[1]>>
         \o (IF joined = <<>> THEN <<"/">> ELSE joined)
         \o (IF parts.query = <<>> THEN <<>> ELSE <<"?">> \o parts.query)
         \o (IF parts.fragment = <<>> THEN <<>> ELSE <<"#">> \o parts.fragment)

\* urlparse(url).path
UrlPath(url) == UrlSplit(Tail(url)).path

\* what an HTTP request for url asks the server for: the URL without its fragment
RequestTarget(url) ==
    LET parts == UrlSplit(Tail(url))
    IN parts.path \o (IF parts.query = <<>> THEN <<>> ELSE <<"?">> \o parts.query)

-----------------------------------------------------------------------------
(* Link Extractor: extract_item_links *)

WikiPrefix == <<"/", "w", "i", "k", "i", "/">>

\* anchors outside the content container, before it in the document
NavAnchors ==
    <<[href |-> [ok |-> TRUE, text |-> WikiPrefix \o <<"M">>], text |-> <<"M">>]>>

\* content.find_all('a', href=True), where content is the element with id
\* mw-content-text, or the whole document when there is none
FindAnchors(page) ==
    LET scope == IF page.container THEN page.anchors ELSE NavAnchors \o page.anchors
    IN SelectSeq(scope, LAMBDA a : a.href.ok)

\* the tests of the first loop's body on one anchor
AcceptsAnchor(a) ==
    /\ StartsAt(a.href.text, 1, WikiPrefix)
    /\ ~Contains(From(a.href.text, Len(WikiPrefix) + 1), <<":">>)
    /\ Strip(a.text) # <<>>

RECURSIVE CollectLinks(_, _)
\* the first loop: links.append((text, full)) for the anchors that pass the tests
CollectLinks(anchors, base_url) ==
    IF anchors = <<>> THEN <<>>
    ELSE LET a == anchors[1]
             rest == CollectLinks(Tail(anchors), base_url)
         IN IF AcceptsAnchor(a)
            THEN <<[text |-> Strip(a.text), url |-> urljoin(base_url, a.href.text)]>> \o rest
            ELSE rest

\* a second loop that remembers links by their display text
SeenKeyByText(link) == link.text

\* the key under which the second loop remembers a link
SeenKey(link) == link.url

RECURSIVE DedupLinks(_, _, _)
\* the second loop: seen = set(); uniq = []; ...
DedupLinks(ls, seen, uniq) ==
    IF ls = <<>> THEN uniq
    ELSE IF SeenKey(ls[1]) \in seen THEN DedupLinks(Tail(ls), seen, uniq)
    ELSE DedupLinks(Tail(ls), seen \cup {SeenKey(ls[1])}, Append(uniq, ls[1]))

\* extract_item_links(list_html, base_url)
extract_item_links(page, base_url) ==
    DedupLinks(CollectLinks(FindAnchors(page), base_url), {}, <<>>)

-----------------------------------------------------------------------------
(* Markup, the site, the cache directory and the output file *)

NoText == [ok |-> FALSE, text |-> <<>>]
Some(t) == [ok |-> TRUE, text |-> t]

Anchor(href, text) == [href |-> Some(href), text |-> text]

\* a parsed document: the anchors of its body (inside the content container when
\* it has one), its firstHeading, its running text and its table rows
Markup(container, anchors, h1, body, rows) ==
    [container |-> container, anchors |-> anchors, h1 |-> h1, body |-> body, rows |-> rows]

EmptyMarkup == Markup(FALSE, <<>>, NoText, <<>>, <<>>)

\* fetch(url) returned None
FetchFailed == [ok |-> FALSE, page |-> EmptyMarkup]

\* fetch(url): the text of the response, None on any exception
fetch(site, url) ==
    LET target == RequestTarget(url)
    IN IF target \in DOMAIN site THEN site[target] ELSE FetchFailed

\* re.sub(r'[^a-zA-Z0-9_-]', '_', c)
SafeChar(c) == IF IsWord(c) \/ c = "-" THEN c ELSE "_"

\* s.strip('/')
StripSlashes(s) ==
    IF \A i \in 1..Len(s) : s[i] = "/" THEN <<>>
    ELSE LET a == CHOOSE i \in 1..Len(s) : s[i] # "/" /\ \A k \in 1..(i - 1) : s[k] = "/"
             b == CHOOSE i \in 1..Len(s) : s[i] # "/" /\ \A k \in (i + 1)..Len(s) : s[k] = "/"
         IN SubSeq(s, a, b)

\* safe_name + '.html', the name of the cache file of a link
CachePath(link) ==
    LET p == StripSlashes(UrlPath(link))
    IN [i \in 1..Len(p) |-> SafeChar(p[i])] \o <<".html">>

\* an item of the store: a record with a name, a record without one, or
\* something json.load produced that is no record at all
Record(name, form_id, url) == [kind |-> "rec", name |-> name, form_id |-> form_id, url |-> url]
NamelessRecord == [kind |-> "noname", name |-> <<>>, form_id |-> <<>>, url |-> <<>>]
NotARecord == [kind |-> "bad", name |-> <<>>, form_id |-> <<>>, url |-> <<>>]

\* a value of the store: a list of items, or something that is no list
ListOf(recs) == [isList |-> TRUE, recs |-> recs]
NotAList == [isList |-> FALSE, recs |-> <<>>]

EmptyStore == [k \in {} |-> NotAList]

\* (i.get('name') or '').lower()
LowerName(rec) == StrLower(IF rec.kind = "rec" THEN rec.name ELSE <<>>)

\* the output file: absent, not JSON, JSON that is no mapping, or a mapping
FileAbsent == [kind |-> "absent", store |-> EmptyStore]
FileGarbage == [kind |-> "garbage", store |-> EmptyStore]
FileNotMapping == [kind |-> "scalar", store |-> EmptyStore]

\* json.dump(out_data, f, ...): keys are strings and values are what json.load
\* gave or lists of records of strings, all of which JSON writes and reads back
\* unchanged
JsonDump(store) == [kind |-> "store", store |-> store]

\* json.load(f) followed by "for k, v in loaded.items(): out_data[k] = v",
\* inside the try: the store main() starts from
ResumeLoad(f) == IF f.kind = "store" THEN f.store ELSE EmptyStore

-----------------------------------------------------------------------------
(* Category Scraper: one iteration of the loop of scrape_category *)

REQUEST_DELAY == 1

Event(ev, d) == [ev |-> ev, d |-> d]

\* an iteration that goes on to the next candidate at once when the fetch failed
IterationEventsNoPauseOnFailure(source, delay) ==
    CASE source = "cache"   -> <<Event("cache", 0), Event("sleep", delay)>>
      [] source = "fetched" -> <<Event("fetch", 0), Event("sleep", delay)>>
      [] source = "failed"  -> <<Event("failed fetch", 0)>>

\* what one iteration does to the network and the clock, in order, given where
\* the markup came from: the cache file ("cache"), a fetch that succeeded
\* ("fetched") or a fetch that failed ("failed")
IterationEvents(source, delay) ==
    CASE source = "cache"   -> <<Event("cache", 0), Event("sleep", delay)>>
      [] source = "fetched" -> <<Event("fetch", 0), Event("sleep", delay)>>
      [] source = "failed"  -> <<Event("failed fetch", 0), Event("sleep", delay)>>

\* items.append({'name': name or title, 'form_id': formid, 'url': link})
NamedRecord(title, link, r) ==
    Record(IF r.name # <<>> THEN r.name ELSE title, r.form_id, link)

\* name, formid = extract_name_and_formid(item_html), and the record made of them
ItemRecord(title, link, page) == NamedRecord(title, link, extract_name_and_formid(page))

\* the body of "for title, link in links", after the cap test and os.makedirs;
\* cacheWrites: whether writing the cache file succeeds when it is tried
Iteration(link, useCache, files, site, cacheWrites, delay) ==
    LET path == CachePath(link.url)
        hit == useCache /\ path \in DOMAIN files
        got == IF hit THEN [ok |-> TRUE, page |-> files[path]] ELSE fetch(site, link.url)
        source == IF hit THEN "cache" ELSE IF got.ok THEN "fetched" ELSE "failed"
        files2 == IF ~hit /\ got.ok /\ useCache /\ cacheWrites
                  THEN [f \in DOMAIN files \cup {path} |-> IF f = path THEN got.page ELSE files[f]]
                  ELSE files
    IN [ok |-> got.ok,
        record |-> IF got.ok THEN ItemRecord(link.text, link.url, got.page)
                   ELSE NotARecord,
        files |-> files2,
        events |-> IterationEvents(source, delay)]

-----------------------------------------------------------------------------
(* Run Orchestrator: the merge of main() *)

\* an insertion at the head of the list
AppendToFront(store, key, it) ==
    [k \in DOMAIN store \cup {key} |->
        IF k = key
        THEN ListOf(<<it>> \o (IF key \in DOMAIN store THEN store[key].recs ELSE <<>>))
        ELSE store[k]]

\* out_data[key].append(it) on a defaultdict(list)
AppendTo(store, key, it) ==
    [k \in DOMAIN store \cup {key} |->
        IF k = key
        THEN ListOf((IF key \in DOMAIN store THEN store[key].recs ELSE <<>>) \o <<it>>)
        ELSE store[k]]

\* the test that makes the merge loop skip an item
AlreadyStored(it, existing) == LowerName(it) \in existing

\* a merge that replaces what is stored under the key: out_data[key] = items
MergeOverwrite(store, key, existing, its) ==
    IF its = <<>> THEN store
    ELSE [k \in DOMAIN store \cup {key} |-> IF k = key THEN ListOf(its) ELSE store[k]]

RECURSIVE MergeItems(_, _, _, _)
\* for it in items: if ... in existing_names: continue; out_data[key].append(it)
MergeItems(store, key, existing, its) ==
    IF its = <<>> THEN store
    ELSE IF AlreadyStored(its[1], existing)
         THEN MergeItems(store, key, existing, Tail(its))
         ELSE MergeItems(AppendTo(store, key, its[1]), key, existing, Tail(its))

\* out_data.get(key, [])
StoredUnder(store, key) == IF key \in DOMAIN store THEN store[key] ELSE ListOf(<<>>)

\* the set comprehension of existing_names raises: the value is not iterable,
\* or an element of it has no get()
NamesRaise(store, key) ==
    LET v == StoredUnder(store, key)
    IN ~v.isList \/ \E i \in 1..Len(v.recs) : v.recs[i].kind = "bad"

\* the names as stored, without .lower()
ExistingNamesAsStored(store, key) ==
    {StoredUnder(store, key).recs[i].name : i \in 1..Len(StoredUnder(store, key).recs)}

\* existing_names = { (i.get('name') or '').lower() for i in out_data.get(key, []) }
ExistingNames(store, key) ==
    {LowerName(StoredUnder(store, key).recs[i]) : i \in 1..Len(StoredUnder(store, key).recs)}

-----------------------------------------------------------------------------
(* The inputs of the runs *)

UrlW == <<Origin, "/", "W">>
UrlV == <<Origin, "/", "V">>
UrlA == <<Origin>> \o WikiPrefix \o <<"A">>

HrefA == WikiPrefix \o <<"A">>
HrefASection == WikiPrefix \o <<"A", "#", "s">>
HrefDotA == WikiPrefix \o <<".", "/", "A">>
HrefB == WikiPrefix \o <<"B">>
HrefFile == WikiPrefix \o <<"F", ":", "A">>
HrefOther == <<"/", "w", "/", "A">>

FormIdText == <<"F", "o", "r", "m", "I", "D", ":", " ", "0", "0", "0", "3", "A", "3", "F", "8">>
ZeroXText == <<"0", "x", "1", "a", "2", "b", "3", "c">>

\* item pages: "Ax" with a labelled identifier, "ax" with a 0x identifier, a page
\* without heading or identifier, and an older copy of the first
PageAx == Markup(TRUE, <<>>, Some(<<"A", "x">>), FormIdText, <<>>)
PageAxLower == Markup(TRUE, <<>>, Some(<<"a", "x">>), ZeroXText, <<>>)
PagePlain == Markup(TRUE, <<>>, NoText, <<"Z">>, <<>>)
PageOld == Markup(TRUE, <<>>, Some(<<"O">>), <<>>, <<>>)

\* category pages: two links to one page, two links to two pages, one link and
\* no content container
CatSame == Markup(TRUE, <<Anchor(HrefA, <<"A">>), Anchor(HrefASection, <<"A", " ">>),
                          Anchor(HrefFile, <<"F">>)>>, NoText, <<>>, <<>>)
CatTwo == Markup(TRUE, <<Anchor(HrefA, <<"A">>), Anchor(HrefB, <<"B">>)>>, NoText, <<>>, <<>>)
CatOne == Markup(FALSE, <<Anchor(HrefB, <<"B">>)>>, NoText, <<>>, <<>>)

Ok(page) == [ok |-> TRUE, page |-> page]

Targets == {<<"/", "W">>, <<"/", "V">>, HrefA, HrefB}

Sites ==
    {[t \in Targets |->
         CASE t = <<"/", "W">> -> w [] t = <<"/", "V">> -> v [] t = HrefA -> a [] t = HrefB -> b] :
       w \in {FetchFailed, Ok(CatSame), Ok(CatTwo)},
       v \in {FetchFailed, Ok(CatOne)},
       a \in {FetchFailed, Ok(PageAx)},
       b \in {FetchFailed, Ok(PageAxLower), Ok(PagePlain)}}

CatW == [name |-> <<"W">>, url |-> UrlW]
CatLowerW == [name |-> <<"w">>, url |-> UrlV]
CatV == [name |-> <<"V">>, url |-> UrlV]

\* W, w, V, W, w, V, ...: neighbours share a key (W, w), share a URL (w, V) or
\* share nothing (V, W)
CategoryCycle == <<CatW, CatLowerW, CatV>>

MaxCats == 2

\* the category lists of length n: n consecutive categories of the cycle
ListFrom(k, n) == [i \in 1..n |-> CategoryCycle[((k + i - 2) % 3) + 1]]

CategoryLists == {ListFrom(k, n) : k \in 1..3, n \in 1..MaxCats}

\* every item, or at most one item per category without a cache
ArgSets ==
    [categories : CategoryLists, resume : BOOLEAN, max_per_cat : {0},
     cache_dir : BOOLEAN, delay : {REQUEST_DELAY}]
    \cup
    [categories : CategoryLists, resume : {FALSE}, max_per_cat : {1},
     cache_dir : {FALSE}, delay : {REQUEST_DELAY + 1}]

RecAx == Record(<<"A", "x">>, <<"0", "0", "0", "3", "A", "3", "F", "8">>, UrlA)
RecQ == Record(<<"Q">>, <<>>, UrlA)

StoreOf(k, v) == [x \in {k} |-> v]
StoreOf2(k1, v1, k2, v2) == [x \in {k1, k2} |-> IF x = k1 THEN v1 ELSE v2]

\* what a run with --resume may find in the output file
ResumeFiles ==
    {FileAbsent, FileGarbage, FileNotMapping,
     JsonDump(StoreOf2(<<"w">>, ListOf(<<RecAx>>), <<"m">>, ListOf(<<RecQ>>))),
     JsonDump(StoreOf2(<<"w">>, ListOf(<<NamelessRecord>>), <<"m">>, ListOf(<<RecQ>>))),
     JsonDump(StoreOf(<<"w">>, NotAList)),
     JsonDump(StoreOf2(<<"v">>, ListOf(<<NotARecord>>), <<"m">>, NotAList))}

Caches ==
    {[usable |-> TRUE, files |-> EmptyStore],
     [usable |-> TRUE, files |-> StoreOf(CachePath(UrlA), PageOld)],
     [usable |-> FALSE, files |-> EmptyStore]}

-----------------------------------------------------------------------------
(* The run: main() and scrape_category() as a process *)

Categories == args.categories
Limit == args.max_per_cat

\* the state of the process before main() has done anything
RunStart ==
    /\ pc = "start"
    /\ out_data = EmptyStore
    /\ ci = 1
    /\ existing_names = {}
    /\ links = <<>>
    /\ li = 1
    /\ items = <<>>
    /\ count = 0
    /\ error = ""
    /\ trace = <<>>
    /\ loaded = EmptyStore
    /\ scraped = <<>>
    /\ startFile = file
    /\ lastSave = "none"

\* no extractor is being exercised
ExtractorsIdle ==
    /\ input = EmptyMarkup
    /\ output = <<>>

Init ==
    /\ args \in ArgSets
    /\ file \in (IF args.resume THEN ResumeFiles ELSE {FileAbsent})
    /\ web \in Sites
    /\ diskCache \in (IF args.cache_dir THEN Caches ELSE {[usable |-> TRUE, files |-> EmptyStore]})
    /\ run = 1
    /\ sameSite = TRUE
    /\ firstStore = EmptyStore
    /\ RunStart
    /\ ExtractorsIdle

\* main(), lines 224-233: the store is empty, or what the resume file holds
LoadResume ==
    /\ pc = "start"
    /\ out_data' = IF args.resume /\ file.kind # "absent" THEN ResumeLoad(file) ELSE EmptyStore
    /\ loaded' = out_data'
    /\ pc' = "category"
    /\ UNCHANGED <<input, output, web, diskCache, file, args, run, ci, existing_names, links,
                   li, items, count, error, trace, scraped, startFile, lastSave, sameSite,
                   firstStore>>

\* main(), lines 235-239, and scrape_category(), lines 136-144: the names stored
\* under the key, then the category page and its links
BeginCategory ==
    /\ pc = "category"
    /\ ci <= Len(Categories)
    /\ LET key == StrLower(Categories[ci].name)
           url == Categories[ci].url
           html == fetch(web, url)
       IN IF NamesRaise(out_data, key)
          THEN /\ pc' = "crashed"
               /\ error' = "existing_names"
               /\ UNCHANGED <<existing_names, links, li, items, count, trace>>
          ELSE /\ existing_names' = ExistingNames(out_data, key)
               /\ items' = <<>>
               /\ count' = 0
               /\ li' = 1
               /\ trace' = <<>>
               /\ error' = error
               /\ IF html.ok
                  THEN /\ links' = extract_item_links(html.page, url)
                       /\ pc' = "candidate"
                  ELSE /\ links' = <<>>
                       /\ pc' = "merge"
    /\ UNCHANGED <<input, output, web, diskCache, file, args, run, out_data, ci, loaded,
                   scraped, startFile, lastSave, sameSite, firstStore>>

\* scrape_category(), lines 145-147 and 175: the loop ends
EndCandidates ==
    /\ pc = "candidate"
    /\ li > Len(links) \/ (Limit # 0 /\ count >= Limit)
    /\ pc' = "merge"
    /\ UNCHANGED <<input, output, web, diskCache, file, args, run, out_data, ci,
                   existing_names, links, li, items, count, error, trace, loaded, scraped,
                   startFile, lastSave, sameSite, firstStore>>

\* the effect of one iteration on the state of scrape_category()
Iterated(it) ==
    /\ diskCache' = [diskCache EXCEPT !.files = it.files]
    /\ items' = IF it.ok THEN Append(items, it.record) ELSE items
    /\ count' = IF it.ok THEN count + 1 ELSE count
    /\ trace' = trace \o it.events
    /\ li' = li + 1
    /\ UNCHANGED <<pc, error>>

\* scrape_category(), lines 148-174: one candidate
ProcessCandidate ==
    /\ pc = "candidate"
    /\ li <= Len(links)
    /\ ~(Limit # 0 /\ count >= Limit)
    /\ IF args.cache_dir /\ ~diskCache.usable
       THEN /\ pc' = "crashed"
            /\ error' = "makedirs"
            /\ UNCHANGED <<diskCache, li, items, count, trace>>
       ELSE \E cacheWrites \in BOOLEAN :
              Iterated(Iteration(links[li], args.cache_dir, diskCache.files, web,
                                 cacheWrites, args.delay))
    /\ UNCHANGED <<input, output, web, file, args, run, out_data, ci, existing_names, links,
                   loaded, scraped, startFile, lastSave, sameSite, firstStore>>

\* main(), lines 240-243: the items of the category join the store
Merge ==
    /\ pc = "merge"
    /\ LET key == StrLower(Categories[ci].name)
       IN /\ out_data' = MergeItems(out_data, key, existing_names, items)
          /\ scraped' = Append(scraped, [key |-> key, items |-> items])
    /\ pc' = "open"
    /\ UNCHANGED <<input, output, web, diskCache, file, args, run, ci, existing_names, links,
                   li, items, count, error, trace, loaded, startFile, lastSave, sameSite,
                   firstStore>>

\* main(), line 246: open(args.out, 'w') empties the file, or raises and leaves it
OpenOutput ==
    /\ pc = "open"
    /\ \/ /\ file' = FileGarbage
          /\ pc' = "dump"
          /\ UNCHANGED <<ci, lastSave>>
       \/ /\ pc' = "category"
          /\ ci' = ci + 1
          /\ lastSave' = "failed"
          /\ UNCHANGED file
    /\ UNCHANGED <<input, output, web, diskCache, args, run, out_data, existing_names, links,
                   li, items, count, error, trace, loaded, scraped, startFile, sameSite,
                   firstStore>>

\* main(), lines 247-250: json.dump writes the store, or raises part-way
DumpOutput ==
    /\ pc = "dump"
    /\ \/ /\ file' = JsonDump(out_data)
          /\ lastSave' = "ok"
       \/ /\ file' = FileGarbage
          /\ lastSave' = "failed"
    /\ pc' = "category"
    /\ ci' = ci + 1
    /\ UNCHANGED <<input, output, web, diskCache, args, run, out_data, existing_names, links,
                   li, items, count, error, trace, loaded, scraped, startFile, sameSite,
                   firstStore>>

\* main(), line 252: the final report
Report ==
    /\ pc = "category"
    /\ ci > Len(Categories)
    /\ pc' = "done"
    /\ UNCHANGED <<input, output, web, diskCache, file, args, run, out_data, ci,
                   existing_names, links, li, items, count, error, trace, loaded, scraped,
                   startFile, lastSave, sameSite, firstStore>>

NextRun ==
    \/ LoadResume
    \/ BeginCategory
    \/ ProcessCandidate
    \/ EndCandidates
    \/ Merge
    \/ OpenOutput
    \/ DumpOutput
    \/ Report

Spec == Init /\ [][NextRun]_vars

-----------------------------------------------------------------------------
(* The extractors on their own: each is applied to markup drawn from a bounded set *)

\* no run is in progress
RunAbsent ==
    /\ args = [categories |-> <<>>, resume |-> FALSE, max_per_cat |-> 0,
               cache_dir |-> FALSE, delay |-> REQUEST_DELAY]
    /\ file = FileAbsent
    /\ web = [t \in {} |-> FetchFailed]
    /\ diskCache = [usable |-> TRUE, files |-> EmptyStore]
    /\ run = 1
    /\ sameSite = TRUE
    /\ firstStore = EmptyStore
    /\ out_data = EmptyStore
    /\ ci = 1
    /\ existing_names = {}
    /\ links = <<>>
    /\ li = 1
    /\ items = <<>>
    /\ count = 0
    /\ error = ""
    /\ trace = <<>>
    /\ loaded = EmptyStore
    /\ scraped = <<>>
    /\ startFile = FileAbsent
    /\ lastSave = "none"

MaxAnchors == 3

AnchorChoices ==
    [href : {Some(HrefA), Some(HrefDotA), Some(HrefASection), Some(HrefFile), Some(HrefOther)},
     text : {<<" ">>, <<"A">>, <<"B", " ">>}]
    \cup {[href |-> NoText, text |-> <<"A">>]}

AnchorLists == UNION {[1..n -> AnchorChoices] : n \in 0..MaxAnchors}

\* category pages: with and without the content container
LinkPages ==
    {Markup(c, as, NoText, <<>>, <<>>) : c \in BOOLEAN, as \in AnchorLists}

InitLinks ==
    /\ pc = "links_in"
    /\ input \in LinkPages
    /\ output = <<>>
    /\ RunAbsent

\* links = extract_item_links(html, category_url)
ExtractLinks ==
    /\ pc = "links_in"
    /\ output' = extract_item_links(input, UrlW)
    /\ pc' = "links_out"
    /\ UNCHANGED <<input, runVars>>

SpecLinks == InitLinks /\ [][ExtractLinks]_vars

MaxGroups == 1
MaxRows == 1

\* what may precede an identifier: nothing, the labels of the first three
\* patterns, and the first label in lower case
LabelChoices ==
    {<<>>,
     <<"F", "o", "r", "m", "I", "D", ":", " ">>,
     <<"f", "o", "r", "m", "i", "d", ":">>,
     <<"I", "D", " ">>,
     <<"0", "x">>}

\* six, eight and five hexadecimal characters, and six followed by a letter
TokenChoices ==
    {<<"1", "a", "2", "b", "3", "c">>,
     <<"0", "0", "0", "3", "A", "3", "F", "8">>,
     <<"a", "b", "c", "d", "e">>,
     <<"1", "2", "3", "4", "5", "6", "Z">>}

GroupChoices == {l \o t : l \in LabelChoices, t \in TokenChoices}

\* what the text may start with: nothing, a bare token, a 0x token
LeadChoices ==
    {<<>>,
     <<"A", "B", "C", "D", "E", "F", "1", "2", " ">>,
     <<"0", "x", "f", "e", "d", "c", "b", "a", " ">>}

BodyChoices ==
    {lead \o JoinSpace(gs) :
        lead \in LeadChoices, gs \in UNION {[1..n -> GroupChoices] : n \in 0..MaxGroups}}

RowChoices ==
    [th : {<<"I", "t", "e", "m", " ", "I", "D">>, <<"N", "a", "m", "e">>},
     td : {NoText, Some(<<"Z", "9", "8", "7", "6", "5", "4">>)}]

RowLists == UNION {[1..n -> RowChoices] : n \in 0..MaxRows}

\* item pages
ItemPages ==
    {Markup(TRUE, <<>>, h, b, rs) :
        h \in {NoText, Some(<<" ", "A", "x">>)}, b \in BodyChoices, rs \in RowLists}

InitFormid ==
    /\ pc = "formid_in"
    /\ input \in ItemPages
    /\ output = [name |-> <<>>, form_id |-> <<>>]
    /\ RunAbsent

\* name, formid = extract_name_and_formid(item_html)
ExtractFormid ==
    /\ pc = "formid_in"
    /\ output' = extract_name_and_formid(input)
    /\ pc' = "formid_out"
    /\ UNCHANGED <<input, runVars>>

SpecFormid == InitFormid /\ [][ExtractFormid]_vars

-----------------------------------------------------------------------------
(* Link Extractor: what it is claimed to return *)

\* the anchors the extractor looks at, in document order
AnchorsInScope(page) ==
    LET all == IF page.container THEN page.anchors ELSE NavAnchors \o page.anchors
    IN SelectSeq(all, LAMBDA a : a.href.ok)

\* internal content prefix, no namespace separator after it, visible text
IsItemAnchor(a) ==
    /\ Len(a.href.text) >= 6
    /\ SubSeq(a.href.text, 1, 6) = WikiPrefix
    /\ \A i \in 7..Len(a.href.text) : a.href.text[i] # ":"
    /\ \E i \in 1..Len(a.text) : ~IsSpace(a.text[i])

\* the reference operator: the item anchors whose absolute URL no earlier item
\* anchor has, in document order, each with its own text
ReferenceLinks(page, base_url) ==
    LET as == AnchorsInScope(page)
        abs(i) == urljoin(base_url, as[i].href.text)
        keep == {i \in 1..Len(as) :
                    /\ IsItemAnchor(as[i])
                    /\ \A j \in 1..(i - 1) : IsItemAnchor(as[j]) => abs(j) # abs(i)}
        nth(n) == CHOOSE i \in keep : Cardinality({j \in keep : j < i}) = n - 1
    IN [n \in 1..Cardinality(keep) |-> [text |-> Strip(as[nth(n)].text), url |-> abs(nth(n))]]

\* the path of an absolute URL contains a namespace separator
HasNamespace(url) == \E i \in 2..Len(url) : url[i] = ":"

\* C8: the Link Extractor returns what the reference operator returns: the item
\* anchors in document order, first occurrence of each absolute URL only; so no
\* URL occurs twice, no path has a namespace separator and no text is empty
C8_LinksEqualReference ==
    pc = "links_out" =>
        /\ output = ReferenceLinks(input, UrlW)
        /\ \A i, j \in 1..Len(output) : i # j => output[i].url # output[j].url
        /\ \A i \in 1..Len(output) : ~HasNamespace(output[i].url) /\ output[i].text # <<>>

\* a page on which a later anchor repeats the URL of an earlier one under another
\* text, a namespace link is rejected and two links are returned
C8_Witness ==
    /\ pc = "links_out"
    /\ Len(output) = 2
    /\ input.container
    /\ Len(input.anchors) = 3
    /\ input.anchors[1].href.text = HrefA
    /\ input.anchors[2].href.text = HrefASection
    /\ input.anchors[3].href.text = HrefDotA
    /\ input.anchors[3].text = <<"B", " ">>
    /\ output[1].text = <<"A">>

-----------------------------------------------------------------------------
(* Identifier Extractor: what it is claimed to return *)

UpperHexChars == Digits \cup {"A", "B", "C", "D", "E", "F"}

\* '' or 6 to 8 upper-case hexadecimal characters
WellFormedFormid(f) ==
    \/ f = <<>>
    \/ /\ Len(f) >= MinHex
       /\ Len(f) <= MaxHex
       /\ \A i \in 1..Len(f) : f[i] \in UpperHexChars
       /\ ~Contains(f, <<"0", "X">>)

\* a row of the table scan gives an identifier
SomeRowMatches(rows) ==
    \E i \in 1..Len(rows) :
        /\ IsIdLabel(StrLower(Strip(rows[i].th)))
        /\ rows[i].td.ok
        /\ SearchHex(Strip(rows[i].td.text)).hit

\* one of the six tiers finds an identifier in the page
SomeTierMatches(page) ==
    \/ \E k \in 1..NumPatterns : FORMID_PATTERNS(k, GetText(page)).hit
    \/ SomeRowMatches(page.rows)
    \/ SearchHex(First800(GetText(page))).hit

\* C9: whichever tier produces it, the form_id is '' or 6 to 8 hexadecimal
\* characters in upper case without a 0X marker, and it is '' exactly when every
\* tier fails
C9_FormidFormat ==
    pc = "formid_out" =>
        /\ WellFormedFormid(output.form_id)
        /\ (output.form_id = <<>>) <=> ~SomeTierMatches(input)

\* Scenario C: only the 0x pattern matches, and 1A2B3C is returned
C9_Witness ==
    /\ pc = "formid_out"
    /\ input.body = <<"0", "x", "1", "a", "2", "b", "3", "c">>
    /\ ~input.h1.ok
    /\ input.rows = <<>>
    /\ output.form_id = <<"1", "A", "2", "B", "3", "C">>

\* 'FormID' in any letter case, [:\s]*, a hexadecimal token: the first such place
SearchFormIDAnyCase(text) ==
    Leftmost(text, [i \in 1..Len(text) |->
                       LabelledAt(<<"f", "o", "r", "m", "i", "d">>, StrLower(text), i)])

\* the result of the first tier that matches, '' when none does
FirstTierResult(page) ==
    LET text == GetText(page)
        tiers == {k \in 1..NumPatterns : FORMID_PATTERNS(k, text).hit}
    IN IF tiers # {}
       THEN StrUpper(FORMID_PATTERNS(CHOOSE k \in tiers : \A j \in tiers : k <= j, text).group)
       ELSE IF SomeRowMatches(page.rows)
       THEN LET i == CHOOSE r \in 1..Len(page.rows) :
                        /\ SomeRowMatches(<<page.rows[r]>>)
                        /\ ~SomeRowMatches(SubSeq(page.rows, 1, r - 1))
            IN StrUpper(SearchHex(Strip(page.rows[i].td.text)).group)
       ELSE IF SearchHex(First800(text)).hit THEN StrUpper(SearchHex(First800(text)).group)
       ELSE <<>>

\* C10: the tiers are tried in order and the first that matches decides; and
\* when the text has 'FormID' in any letter case followed by a token, that token
\* is returned, whatever else the text holds
C10_FormIDLabelDecides ==
    pc = "formid_out" =>
        /\ output.form_id = FirstTierResult(input)
        /\ SearchFormIDAnyCase(GetText(input)).hit =>
               output.form_id = StrUpper(SearchFormIDAnyCase(GetText(input)).group)

-----------------------------------------------------------------------------
(* Two runs: main() is invoked again once the first invocation has reported *)

\* the sites of the two-run specification
SitesTwoRuns ==
    {site \in Sites : site[<<"/", "W">>].ok /\ site[<<"/", "V">>].ok /\ site[HrefA].ok}

ArgSetsTwoRuns == {a \in ArgSets : ~a.resume}

InitTwoRuns ==
    /\ args \in ArgSetsTwoRuns
    /\ file = FileAbsent
    /\ web \in SitesTwoRuns
    /\ diskCache \in (IF args.cache_dir THEN {c \in Caches : c.usable}
                      ELSE {[usable |-> TRUE, files |-> EmptyStore]})
    /\ run = 1
    /\ sameSite = TRUE
    /\ firstStore = EmptyStore
    /\ RunStart
    /\ ExtractorsIdle

\* between the runs a page of the site changes
SiteChanges ==
    /\ pc = "done"
    /\ run = 1
    /\ sameSite
    /\ web' \in SitesTwoRuns \ {web}
    /\ sameSite' = FALSE
    /\ UNCHANGED <<pc, input, output, diskCache, file, args, run, out_data, ci,
                   existing_names, links, li, items, count, error, trace, loaded, scraped,
                   startFile, lastSave, firstStore>>

\* the second invocation: the same command line, with or without --resume
Rerun ==
    /\ pc = "done"
    /\ run = 1
    /\ run' = 2
    /\ \E r \in BOOLEAN : args' = [args EXCEPT !.resume = r]
    /\ firstStore' = out_data
    /\ pc' = "start"
    /\ out_data' = EmptyStore
    /\ ci' = 1
    /\ existing_names' = {}
    /\ links' = <<>>
    /\ li' = 1
    /\ items' = <<>>
    /\ count' = 0
    /\ error' = ""
    /\ trace' = <<>>
    /\ loaded' = EmptyStore
    /\ scraped' = <<>>
    /\ startFile' = file
    /\ lastSave' = "none"
    /\ UNCHANGED <<input, output, web, diskCache, file, sameSite>>

NextTwoRuns == NextRun \/ SiteChanges \/ Rerun

SpecTwoRuns == InitTwoRuns /\ [][NextTwoRuns]_vars

-----------------------------------------------------------------------------
(* Properties of the run *)

\* the lowercased names of a list of records, in order
LowerNames(recs) == [i \in 1..Len(recs) |-> LowerName(recs[i])]

\* no two records under one key have the same name, letter case aside
NoDupStore(store) ==
    \A k \in DOMAIN store :
        \A i, j \in 1..Len(store[k].recs) :
            i < j => LowerNames(store[k].recs)[i] # LowerNames(store[k].recs)[j]

\* every value is a list of records that have a name
WellFormedStore(store) ==
    \A k \in DOMAIN store :
        /\ store[k].isList
        /\ \A i \in 1..Len(store[k].recs) : store[k].recs[i].kind = "rec"

IsPrefix(s, t) == Len(s) <= Len(t) /\ SubSeq(t, 1, Len(s)) = s

\* every key of old is a key of new, whose list begins with the list of old
KeepsStore(old, new) ==
    \A k \in DOMAIN old :
        /\ k \in DOMAIN new
        /\ new[k].isList
        /\ IsPrefix(old[k].recs, new[k].recs)

\* the records of a scrape that the store does not name yet
NewRecords(store, key, its) ==
    SelectSeq(its, LAMBDA it :
        \A i \in 1..Len(StoredUnder(store, key).recs) :
            LowerName(StoredUnder(store, key).recs[i]) # LowerName(it))

\* the store with the new records of one scrape at the end of the key's list
WithScrape(store, key, new) ==
    IF new = <<>> THEN store
    ELSE [k \in DOMAIN store \cup {key} |->
             IF k = key THEN ListOf(StoredUnder(store, key).recs \o new) ELSE store[k]]

RECURSIVE MergedData(_, _)
\* the complete merged data: the loaded store and the scrapes of the categories
\* processed so far, in the order of the list
MergedData(store, scrapes) ==
    IF scrapes = <<>> THEN store
    ELSE MergedData(WithScrape(store, scrapes[1].key,
                               NewRecords(store, scrapes[1].key, scrapes[1].items)),
                    Tail(scrapes))

\* the merged data of the categories 1 .. ci-1
MergedSoFar == MergedData(loaded, SubSeq(scraped, 1, ci - 1))

\* C1: after any run that started from a store without duplicates, no two
\* records under one category key have names equal up to letter case
C1_NoDuplicateNames ==
    (pc = "done" /\ NoDupStore(loaded)) => NoDupStore(out_data)

C4_ResumeKeepsLoaded ==
    (args.resume /\ startFile.kind = "store" /\ WellFormedStore(startFile.store)
       /\ pc # "start")
    => /\ loaded = startFile.store
       /\ KeepsStore(startFile.store, out_data)
       /\ file.kind = "store" => KeepsStore(startFile.store, file.store)

C4_Witness ==
    /\ args.resume
    /\ startFile.kind = "store"
    /\ WellFormedStore(startFile.store)
    /\ pc = "done"
    /\ lastSave = "ok"
    /\ file # startFile
    /\ file = JsonDump(out_data)
    /\ \E k \in DOMAIN loaded :
          loaded[k].recs # <<>> /\ Len(out_data[k].recs) > Len(loaded[k].recs)
    /\ \E k \in DOMAIN loaded : \A i \in 1..Len(Categories) : StrLower(Categories[i].name) # k

\* the resume file is present and is not a mapping to lists of named records
Malformed(f) == f.kind # "absent" /\ (f.kind = "store" => ~WellFormedStore(f.store))

\* C5: with resume and a malformed output file the run goes on with an empty
\* store and never ends abnormally because of what the file holds
C5_MalformedResumeNeverFatal ==
    (args.resume /\ Malformed(startFile) /\ pc # "start")
    => (loaded = EmptyStore /\ error # "existing_names")

\* C6: whatever fetches, cache writes and writes of the output file fail, a run
\* that loads no resume file never ends abnormally
C6_FailuresNeverAbort ==
    ~args.resume => pc # "crashed"

IsAttempt(e) == e.ev \in {"cache", "fetch", "failed fetch"}
IsFetch(e) == e.ev \in {"fetch", "failed fetch"}

\* C7: every processed candidate (cache hit, fetch, failed fetch) is followed by
\* exactly one pause of the configured delay before the next candidate, so no
\* two fetch attempts of a category occur without a pause between them
C7_PauseAfterEveryCandidate ==
    /\ Len(trace) = 2 * (li - 1)
    /\ \A i \in 1..(li - 1) :
          IsAttempt(trace[2 * i - 1]) /\ trace[2 * i] = Event("sleep", args.delay)
    /\ \A i, j \in 1..Len(trace) :
          (i < j /\ IsFetch(trace[i]) /\ IsFetch(trace[j]))
          => \E k \in (i + 1)..(j - 1) : trace[k] = Event("sleep", args.delay)

C7_Witness ==
    /\ pc = "merge"
    /\ Len(trace) = 4
    /\ \E i, j \in 1..Len(trace) : trace[i].ev = "cache" /\ trace[j].ev = "failed fetch"
    /\ trace[Len(trace)] = Event("sleep", args.delay)

\* C2 as stated: a second run with resume over the same pages appends no record
C2_SecondRunAppendsNothing ==
    (run = 2 /\ args.resume /\ sameSite /\ pc # "start")
    => (out_data = loaded /\ out_data = firstStore)

\* C2: when the output file holds the store the first run ended with, a second
\* run with resume over the same pages appends no record, and the store it
\* writes is the store of the first run
C2_SecondRunAfterSavedFirst ==
    (run = 2 /\ args.resume /\ sameSite /\ startFile = JsonDump(firstStore) /\ pc # "start")
    => /\ out_data = firstStore
       /\ (lastSave = "ok" /\ pc # "dump") => file = JsonDump(firstStore)

C2_Witness ==
    /\ run = 2
    /\ args.resume
    /\ sameSite
    /\ startFile = JsonDump(firstStore)
    /\ pc = "done"
    /\ lastSave = "ok"
    /\ out_data = firstStore
    /\ \E i \in 1..Len(scraped) :
          scraped[i].items # <<>> /\ scraped[i].key \in DOMAIN firstStore

====
